---- MODULE Spec2Model ----
(***************************************************************************)
(* Blitz: a rate-limiting reverse proxy (github.com/FAU-CDI/blitz).        *)
(*                                                                         *)
(* The model follows src/blitz.go, src/reserve.go (first file of the       *)
(* listing), the signer (src/unnamed/part_003) and the statistics ring     *)
(* (src/unnamed/part_001).  The token buckets are golang.org/x/time/rate   *)
(* limiters; their Reserve / Delay / Cancel are modelled after that        *)
(* library at the places blitz calls them.                                 *)
(*                                                                         *)
(* Time is an integer number of clock ticks.  A millisecond is             *)
(* TicksPerMilli ticks, so that time.Now() is finer than the millisecond   *)
(* precision of a token.  Bucket contents are counted in 1/TokenUnit of a  *)
(* token, which keeps the float64 arithmetic of the limiter exact.         *)
(***************************************************************************)
EXTENDS Integers, Sequences, FiniteSets, TLC

(***************************************************************************)
(* Bounds of the model.                                                    *)
(***************************************************************************)
TicksPerMilli == 2      \* clock readings per millisecond
MillisPerSecond == 1    \* scale of a second
NumQueues == 2          \* len(bs)
MaxBurst == 1           \* largest configured burst size
MaxRequests == 3      \* requests handled in one run
MaxReplayed == 4      \* requests handled in one run of mints and uses only
MaxCalls == 3         \* runs of the selector that overlap

(***************************************************************************)
(* Durations (time.Duration, in ticks).                                    *)
(***************************************************************************)
Millisecond == TicksPerMilli
Second == MillisPerSecond * Millisecond
InfDuration == 1000000
every == Second
MaxTime == every + 1

Queues == 0 .. (NumQueues - 1)
Min(a, b) == IF a < b THEN a ELSE b

(***************************************************************************)
(* golang.org/x/time/rate, as used by blitz.                               *)
(***************************************************************************)
TokenUnit == Second
LimiterInterval == Second

NewLimiter(b) ==
    [burst |-> b, tokens |-> b * TokenUnit, last |-> 0, lastEvent |-> 0]

tokensFromDuration(d) == (d * TokenUnit) \div LimiterInterval
durationFromTokens(tk) == (tk * LimiterInterval) \div TokenUnit

advance(lim, t) ==
    LET last == IF t < lim.last THEN t ELSE lim.last
        tokens == lim.tokens + tokensFromDuration(t - last)
    IN  Min(tokens, lim.burst * TokenUnit)

\* the reservation of a slot of reservations[] that was never filled
NilReservation == [nil |-> TRUE, ok |-> FALSE, tokens |-> 0, timeToAct |-> 0]

\* limiter.Reserve() at instant t: the limiter afterwards and the reservation
Reserve(lim, t) ==
    LET tokens == advance(lim, t) - TokenUnit
        waitDuration == IF tokens < 0 THEN durationFromTokens(-tokens) ELSE 0
        ok == 1 <= lim.burst /\ waitDuration <= InfDuration
    IN  IF ok
        THEN [lim |-> [lim EXCEPT !.last = t, !.tokens = tokens,
                                  !.lastEvent = t + waitDuration],
              r   |-> [nil |-> FALSE, ok |-> TRUE, tokens |-> 1,
                       timeToAct |-> t + waitDuration]]
        ELSE [lim |-> lim,
              r   |-> [nil |-> FALSE, ok |-> FALSE, tokens |-> 0, timeToAct |-> 0]]

\* a delay that does not look at whether the reservation is OK
DelayFromTimeToAct(r, t) ==
    IF r.timeToAct - t < 0 THEN 0 ELSE r.timeToAct - t

\* reservation.DelayFrom(t); reservation.Delay() is DelayFrom(time.Now())
DelayFrom(r, t) ==
    IF ~r.ok THEN InfDuration
    ELSE IF r.timeToAct - t < 0 THEN 0 ELSE r.timeToAct - t

\* reservation.Cancel() at instant t: the limiter afterwards
Cancel(lim, r, t) ==
    IF ~r.ok \/ r.tokens = 0 \/ r.timeToAct < t
    THEN lim
    ELSE LET restoreTokens ==
                 r.tokens * TokenUnit - tokensFromDuration(lim.lastEvent - r.timeToAct)
         IN  IF restoreTokens <= 0
             THEN lim
             ELSE LET tokens == Min(advance(lim, t) + restoreTokens,
                                    lim.burst * TokenUnit)
                      prevEvent == r.timeToAct - durationFromTokens(r.tokens * TokenUnit)
                  IN  [lim EXCEPT
                         !.last = t,
                         !.tokens = tokens,
                         !.lastEvent = IF r.timeToAct = lim.lastEvent /\ prevEvent >= t
                                       THEN prevEvent ELSE lim.lastEvent]

\* limiter.Tokens() at instant t
Tokens(lim, t) == advance(lim, t)

(***************************************************************************)
(* Blitz.reserve: the queue selector.                                      *)
(***************************************************************************)
\* a comparison that lets a later, lower queue win a tie
isLowerOrEqualDelay(delay, lowestDelayValue) == delay <= lowestDelayValue

\* "if delay < lowestDelayValue"
isLowerDelay(delay, lowestDelayValue) == delay < lowestDelayValue

\* a loop that stops at the first queue that grants a reservation at all
scanStopsAtFirstGrant(nextInit, lowestDelayValue) ==
    nextInit >= 0 /\ lowestDelayValue = InfDuration

\* a loop that reserves on every queue from the requested one down to 0
scanToTheEnd(nextInit, lowestDelayValue) == nextInit >= 0

\* "for nextInit >= 0 && lowestDelayValue > 0"
scanContinues(nextInit, lowestDelayValue) == nextInit >= 0 /\ lowestDelayValue > 0

\* a guard that spares the reservations below the picked one
cancelsAbovePicked(nextInit, lowestDelayIndex) == nextInit > lowestDelayIndex

\* "if nextInit != lowestDelayIndex" guards reservations[nextInit].Cancel()
cancelsSlot(nextInit, lowestDelayIndex) == nextInit # lowestDelayIndex

\* one pass of the first loop, with the reservation got and its delay
scanStep(s, got, delay) ==
    [s EXCEPT
       !.lims[s.nextInit] = got.lim,
       !.reservations[s.nextInit] = got.r,
       !.lowestDelayIndex = IF isLowerDelay(delay, s.lowestDelayValue)
                            THEN s.nextInit ELSE @,
       !.lowestDelayValue = IF isLowerDelay(delay, s.lowestDelayValue)
                            THEN delay ELSE @,
       !.nextInit = @ - 1]

scanReserve(s, got, t) == scanStep(s, got, DelayFrom(got.r, t))

\* the first loop: reserve on queue, queue-1, ... until a zero delay
RECURSIVE scanLoop(_, _)
scanLoop(s, t) ==
    IF scanContinues(s.nextInit, s.lowestDelayValue)
    THEN scanLoop(scanReserve(s, Reserve(s.lims[s.nextInit], t), t), t)
    ELSE s

\* "for nextInit < len(reservations)"
cancelContinues(s) == s.nextInit < Len(s.cancels)

\* one pass of the second loop
cancelStep(s, t) ==
    IF cancelsSlot(s.nextInit, s.lowestDelayIndex)
    THEN [s EXCEPT
            !.lims[s.nextInit] = Cancel(@, s.reservations[s.nextInit], t),
            !.cancels[s.nextInit + 1] = @ + 1,
            !.nextInit = @ + 1]
    ELSE [s EXCEPT !.nextInit = @ + 1]

\* the second loop: cancel all the non-picked reservations
RECURSIVE cancelLoop(_, _)
cancelLoop(s, t) ==
    IF cancelContinues(s) THEN cancelLoop(cancelStep(s, t), t) ELSE s

\* the locals of blitz.reserve(queue) before its first loop
reserveStart(lims, queue) ==
    [lims |-> lims,
     reservations |-> [i \in 0 .. queue |-> NilReservation],
     cancels |-> [i \in 1 .. (queue + 1) |-> 0],
     lowestDelayIndex |-> -1,
     lowestDelayValue |-> InfDuration,
     nextInit |-> queue]

\* blitz.reserve(queue) at instant t on limiters lims.  The result carries the
\* limiters afterwards, the returned reservation and index, and the locals
\* at return: reservations[] and how often Cancel was called on each slot
\* (cancels is 1-based: cancels[i + 1] counts the calls on reservations[i]).
reserve(lims, queue, t) ==
    IF queue < 0 \/ queue >= NumQueues
    THEN [lims |-> lims, r |-> NilReservation, index |-> -1, queue |-> queue,
          reservations |-> <<>>, cancels |-> <<>>]
    ELSE LET start == reserveStart(lims, queue)
             scanned == scanLoop(start, t)
             s == cancelLoop([scanned EXCEPT !.nextInit = @ + 1], t)
         IN  [lims |-> s.lims,
              r |-> IF s.lowestDelayIndex >= 0
                    THEN s.reservations[s.lowestDelayIndex] ELSE NilReservation,
              index |-> IF s.lowestDelayIndex >= 0 THEN s.lowestDelayIndex ELSE -1,
              queue |-> queue,
              reservations |-> s.reservations,
              cancels |-> s.cancels]

(***************************************************************************)
(* Stats: the sliding window of delay samples.                             *)
(***************************************************************************)
NewStats(d, t) == [d |-> d, lastPurge |-> t, entries |-> <<>>]

\* an index search that takes a sample of age d for expired
RECURSIVE firstYounger(_, _, _, _)
firstYounger(entries, i, t, d) ==
    IF i > Len(entries) THEN 0
    ELSE IF t - entries[i].time < d THEN i
    ELSE firstYounger(entries, i + 1, t, d)

\* slices.IndexFunc(entries, valid): the first valid index, 0 when there is none
RECURSIVE firstValid(_, _, _, _)
firstValid(entries, i, t, d) ==
    IF i > Len(entries) THEN 0
    ELSE IF t - entries[i].time <= d THEN i
    ELSE firstValid(entries, i + 1, t, d)

purge(s, t) ==
    LET validIndex == firstValid(s.entries, 1, t, s.d)
    IN  [s EXCEPT !.lastPurge = t,
                  !.entries = IF validIndex = 0 THEN <<>>
                              ELSE SubSeq(@, validIndex, Len(@))]

\* Stats.AddInt64(value) at instant t
AddInt64(s, value, t) ==
    LET appended == [s EXCEPT !.entries = Append(@, [time |-> t, value |-> value])]
    IN  IF t - s.lastPurge > s.d THEN purge(appended, t) ELSE appended

RECURSIVE sumValues(_, _)
sumValues(entries, i) ==
    IF i > Len(entries) THEN 0 ELSE entries[i].value + sumValues(entries, i + 1)

\* Stats.Average() at instant t: the ring afterwards and the mean as the
\* exact quotient sum / count (count = 0: the mean is zero)
Average(s, t) ==
    LET purged == purge(s, t)
    IN  [s |-> purged,
         sum |-> sumValues(purged.entries, 1),
         count |-> Len(purged.entries)]

(***************************************************************************)
(* signer: tokens.  The signed message is signature || from || until, here *)
(* the tuple <<signature, from, until>>.  A token is its base64 text, kept *)
(* as what the text decodes to, followed by the spare bits of its last     *)
(* character before the padding (80 bytes end in a group of two bytes, so  *)
(* that character carries four bits of the message and two bits of        *)
(* nothing) and by whether all its characters are of the base64 alphabet.  *)
(* The empty tuple is the empty text.                                      *)
(***************************************************************************)
\* a conversion that rounds to the next millisecond
UnixMilliRoundedUp(t) == (t + Millisecond - 1) \div Millisecond

UnixMilli(t) == t \div Millisecond
TimeUnixMilli(ms) == ms * Millisecond

messageLength == 2
Overhead == 1
signatureLength == messageLength + Overhead

\* base64.StdEncoding.EncodedLen: the text of n components
EncodedLen(n) == n + 2
encodedLength == EncodedLen(signatureLength)

\* the signature sign.Sign makes of message with the private key of this server
Signature(message) == <<"ed25519", message>>

\* sign.Sign: signature || message
Sign(message) == <<Signature(message)>> \o message

\* sign.Open: the message, and whether the signature is the one of the message
Open(signed) ==
    [message |-> SubSeq(signed, Overhead + 1, Len(signed)),
     valid |-> signed[1] = Signature(SubSeq(signed, Overhead + 1, Len(signed)))]

\* base64.StdEncoding.EncodeToString: the spare bits are written as zero
EncodeToString(signed) == signed \o <<0, TRUE>>

\* base64.StdEncoding.DecodeString: StdEncoding is not strict, the spare bits
\* of the last character are dropped whatever they are
DecodeString(text) ==
    [signed |-> SubSeq(text, 1, Len(text) - 2),
     err |-> ~text[Len(text)]]

Encode(from, until) ==
    EncodeToString(Sign(<<UnixMilli(from), UnixMilli(until)>>))

errInvalidFormat == "invalid signature format"
errInvalidSignature == "invalid signature"

Decode(token) ==
    IF Len(token) # encodedLength
    THEN [from |-> 0, until |-> 0, err |-> errInvalidFormat]
    ELSE IF DecodeString(token).err
    THEN [from |-> 0, until |-> 0, err |-> errInvalidFormat]
    ELSE IF ~Open(DecodeString(token).signed).valid
    THEN [from |-> 0, until |-> 0, err |-> errInvalidSignature]
    ELSE [from |-> TimeUnixMilli(Open(DecodeString(token).signed).message[1]),
          until |-> TimeUnixMilli(Open(DecodeString(token).signed).message[2]),
          err |-> ""]

(***************************************************************************)
(* Requests.  A header map is a function from the two control headers to   *)
(* their values; a header that is not set reads as "" (Header.Get), which  *)
(* is "" for X-Blitz-Queue and the empty token <<>> for X-Blitz-Reservation.*)
(***************************************************************************)
HeaderReservation == "X-Blitz-Reservation"
HeaderQueue == "X-Blitz-Queue"

QueueHeaderValues == {"", "1", "9"}

MakeHeader(queue, reservation) ==
    (HeaderQueue :> queue) @@ (HeaderReservation :> reservation)

HeaderDel(header, name) ==
    IF name \notin DOMAIN header THEN header
    ELSE [header EXCEPT ![name] = IF name = HeaderReservation THEN <<>> ELSE ""]

\* strconv.ParseInt(header, 10, 64) on the header values of the model
ParseInt(str) ==
    CASE str = "0"  -> [value |-> 0, err |-> FALSE]
      [] str = "1"  -> [value |-> 1, err |-> FALSE]
      [] str = "2"  -> [value |-> 2, err |-> FALSE]
      [] str = "9"  -> [value |-> 9, err |-> FALSE]
      [] str = "-1" -> [value |-> -1, err |-> FALSE]
      [] OTHER      -> [value |-> 0, err |-> TRUE]

\* a header that is only checked from above
getQueueHeaderSigned(r) ==
    LET parsed == ParseInt(r.header[HeaderQueue])
    IN  IF parsed.err THEN 0
        ELSE IF parsed.value >= NumQueues THEN 0
        ELSE parsed.value

getQueueHeader(r) ==
    LET parsed == ParseInt(r.header[HeaderQueue])
    IN  IF parsed.err THEN 0
        ELSE IF parsed.value < 0 \/ parsed.value >= NumQueues THEN 0
        ELSE parsed.value

\* a router that looks at X-Blitz-Reservation before it looks at the path
ServeHTTPRouteHeaderFirst(r) ==
    IF r.header[HeaderReservation] # <<>>
    THEN "serveUseReservation"
    ELSE IF r.path = "/blitz/"
    THEN CASE r.method = "GET"  -> "serveStatus"
           [] r.method = "POST" -> "serveReservation"
           [] OTHER             -> "MethodNotAllowed"
    ELSE "serveRegular"

\* the branch ServeHTTP takes
ServeHTTPRoute(r) ==
    IF r.path = "/blitz/"
    THEN CASE r.method = "GET"  -> "serveStatus"
           [] r.method = "POST" -> "serveReservation"
           [] OTHER             -> "MethodNotAllowed"
    ELSE IF r.header[HeaderReservation] # <<>>
    THEN "serveUseReservation"
    ELSE "serveRegular"

(***************************************************************************)
(* signReservation and useReservation.                                     *)
(***************************************************************************)
FailedReservation ==
    [Success |-> FALSE, Queue |-> 0, DelayInMilliseconds |-> 0,
     XBlitzReservation |-> <<>>,
     TokenValidFromUnixMilliseconds |-> 0, TokenValidUntilUnixMilliseconds |-> 0]

\* a mint whose token is valid from the instant of the mint, whatever the delay
signReservationFromNow(lims, queue, t) ==
    LET sel == reserve(lims, queue, t)
        delay == DelayFrom(sel.r, t)
        from == t
        to == from + every
    IN  [sel |-> sel,
         from |-> from,
         to |-> to,
         rs |-> IF sel.index = -1
                THEN FailedReservation
                ELSE [Success |-> TRUE, Queue |-> sel.index,
                      DelayInMilliseconds |-> delay \div Millisecond,
                      XBlitzReservation |-> Encode(from, to),
                      TokenValidFromUnixMilliseconds |-> UnixMilli(from),
                      TokenValidUntilUnixMilliseconds |-> UnixMilli(to)]]

\* signReservation(queue) at instant t: the selector's result and the record
signReservation(lims, queue, t) ==
    LET sel == reserve(lims, queue, t)
        delay == DelayFrom(sel.r, t)
        from == t + delay
        to == from + every
    IN  [sel |-> sel,
         from |-> from,
         to |-> to,
         rs |-> IF sel.index = -1
                THEN FailedReservation
                ELSE [Success |-> TRUE, Queue |-> sel.index,
                      DelayInMilliseconds |-> delay \div Millisecond,
                      XBlitzReservation |-> Encode(from, to),
                      TokenValidFromUnixMilliseconds |-> UnixMilli(from),
                      TokenValidUntilUnixMilliseconds |-> UnixMilli(to)]]

errReservationExpired == "reservation expired"
errContextCanceled == "context canceled"

\* a switch that lets a token through any time before validUntil
useReservationCaseNoWait(t, validFrom, validUntil) ==
    IF t < validUntil THEN "valid" ELSE "expired"

\* the switch of useReservation on now, validFrom and validUntil
useReservationCase(t, validFrom, validUntil) ==
    IF t > validFrom /\ t < validUntil THEN "valid"
    ELSE IF t < validFrom THEN "wait"
    ELSE "expired"

\* useReservation(ctx, token) at instant t, up to its select:
\* err = "" is a nil error; wait says the call sleeps until validFrom
useReservation(token, t) ==
    LET dec == Decode(token)
        case == useReservationCase(t, dec.from, dec.until)
    IN  IF dec.err # ""
        THEN [err |-> dec.err, wait |-> FALSE, validFrom |-> 0, validUntil |-> 0]
        ELSE [err |-> IF case = "expired" THEN errReservationExpired ELSE "",
              wait |-> case = "wait",
              validFrom |-> dec.from, validUntil |-> dec.until]

(***************************************************************************)
(* The state.                                                              *)
(***************************************************************************)
VARIABLES
    now,         \* the clock read by time.Now()
    limiters,    \* blitz.limiters
    stats,       \* blitz.stats
    nreq,        \* requests handed to ServeHTTP so far
    waiting,     \* handlers suspended in a select
    resp,        \* the request that finished last, with its response
    downstream,  \* the calls of blitz.Handler.ServeHTTP, in order
    issued,      \* the tokens handed out by POST /blitz/, in order
    selected,    \* the last run of blitz.reserve: its argument and result
    samples,     \* every sample handed to blitz.stats[i], in order
    calls        \* the runs of blitz.reserve that are between two of their steps

vars == <<now, limiters, stats, nreq, waiting, resp, downstream, issued, selected,
          samples, calls>>

NoSelection ==
    [id |-> 0, at |-> 0, queue |-> 0, index |-> -1, delay |-> InfDuration,
     offered |-> <<>>, reservations |-> <<>>, cancels |-> <<>>]

NoStatus == [Slots |-> <<>>, Delays |-> <<>>]

NoRequest == [path |-> "", method |-> "", header |-> MakeHeader("", <<>>)]

NoResponse ==
    [id |-> 0, req |-> NoRequest, at |-> 0, doneAt |-> 0, route |-> "",
     status |-> 0, body |-> "", err |-> "", forwarded |-> FALSE,
     index |-> -1, delay |-> 0, cancelAt |-> -1,
     rs |-> FailedReservation, st |-> NoStatus]

\* blitz.New(rand, handler, every, bs) at instant 0
New(bs) ==
    /\ limiters = [i \in Queues |-> NewLimiter(bs[i])]
    /\ stats = [i \in Queues |-> NewStats(10 * every, 0)]

Init ==
    /\ now = 0
    /\ \E bs \in [Queues -> 0 .. MaxBurst] : New(bs)
    /\ nreq = 0
    /\ waiting = {}
    /\ resp = NoResponse
    /\ downstream = <<>>
    /\ issued = <<>>
    /\ selected = NoSelection
    /\ samples = [i \in Queues |-> <<>>]
    /\ calls = {}

\* the tokens clients hold (issued also keeps, for every token, the queue and
\* instant of the mint and the two instants handed to Encode)
IssuedTokens == {issued[k].token : k \in 1 .. Len(issued)}

\* the requests a client sends: the status, mint and other-method requests
\* on /blitz/, transparent requests, and requests that present a token
Requests ==
    LET Req(path, method, queue, token) ==
            [path |-> path, method |-> method, header |-> MakeHeader(queue, token)]
    IN  {Req("/blitz/", "GET", "", <<>>), Req("/blitz/", "DELETE", "", <<>>)}
        \cup {Req("/blitz/", "POST", q, <<>>) : q \in QueueHeaderValues}
        \cup {Req("/", "GET", q, <<>>) : q \in QueueHeaderValues}
        \cup {Req("/", "GET", "1", tok) : tok \in IssuedTokens}

\* what the selector run for request id leaves in `selected`
Selection(id, lims, sel, t) ==
    [id |-> id, at |-> t, queue |-> sel.queue, index |-> sel.index,
     delay |-> DelayFrom(sel.r, t),
     offered |-> [i \in 0 .. sel.queue |-> DelayFrom(Reserve(lims[i], t).r, t)],
     reservations |-> sel.reservations, cancels |-> sel.cancels]

\* the request handed to the downstream handler
Forwarded(id, header, index, token) ==
    [id |-> id, at |-> now, header |-> header, index |-> index, token |-> token]

(***************************************************************************)
(* The handlers.  A handler runs at one clock reading up to the select it  *)
(* suspends in (or to its end).  A suspended handler resumes as soon as    *)
(* one case of its select is ready: the clock does not advance past a      *)
(* ready select, so a timer is served at the reading it is due.            *)
(***************************************************************************)
Response(id, req, at, route) ==
    [NoResponse EXCEPT !.id = id, !.req = req, !.at = at, !.doneAt = now,
                       !.route = route]

\* a handler suspended in a select
Suspended(id, req, route, timer, index, r) ==
    [id |-> id, req |-> req, route |-> route, at |-> now, timer |-> timer,
     index |-> index, r |-> r, ctxDone |-> FALSE, cancelAt |-> -1]

\* a select whose timer case never proceeds
selectCasesNoTimer(ctxDone, timerFired) ==
    {c \in {"ctx.Done"} : ctxDone}

\* a select that does not block: both cases can always proceed
selectCasesUnblocked(ctxDone, timerFired) == {"ctx.Done", "time.After"}

\* the cases of "select { case <-ctx.Done(): ... case <-time.After(d): ... }"
\* that can proceed (Go picks one of them)
selectCases(ctxDone, timerFired) ==
    {c \in {"ctx.Done", "time.After"} :
        \/ c = "ctx.Done" /\ ctxDone
        \/ c = "time.After" /\ timerFired}

\* a select whose timer has always fired
ReadyAtOnce(w) == selectCases(w.ctxDone, TRUE)

\* the cases of the select w is suspended in that can proceed now
Ready(w) == selectCases(w.ctxDone, now >= w.timer)

\* a ctx.Done() case that gives the reservation back ("defer reserve.Cancel()")
regularCancelledRollsBack(lims, index, r, t) ==
    [lims EXCEPT ![index] = Cancel(@, r, t)]

\* the limiters after the ctx.Done() case of serveRegular's select, taken at
\* instant t by a request that holds reservation r of queue index
regularCancelled(lims, index, r, t) == lims

\* headers from which a header no request carries was deleted
forwardHeaderUnscrubbed(header) == HeaderDel(header, "X-Blitz-Request")

\* the headers of the request serveUseReservation and serveRegular forward
forwardHeader(header) == HeaderDel(HeaderDel(header, HeaderReservation), HeaderQueue)

\* GET /blitz/
serveStatus(req) ==
    /\ ServeHTTPRoute(req) = "serveStatus"
    /\ LET avg == [i \in Queues |-> Average(stats[i], now)]
           st == [Slots |-> [i \in Queues |-> Tokens(limiters[i], now) \div TokenUnit],
                  Delays |-> [i \in Queues |->
                                 IF avg[i].count = 0 THEN 0
                                 ELSE (avg[i].sum \div avg[i].count) \div Millisecond]]
       IN  /\ stats' = [i \in Queues |-> avg[i].s]
           /\ resp' = [Response(nreq + 1, req, now, "serveStatus") EXCEPT
                         !.status = 200, !.st = st]
    /\ nreq' = nreq + 1
    /\ UNCHANGED <<now, limiters, waiting, downstream, issued, selected,
                   samples, calls>>

\* POST /blitz/
serveReservation(req) ==
    /\ ServeHTTPRoute(req) = "serveReservation"
    /\ \E signed \in {signReservation(limiters, getQueueHeader(req), now)} :
       \E rs \in {signed.rs} :
       \E delay \in {rs.DelayInMilliseconds * Millisecond} :
           /\ limiters' = signed.sel.lims
           /\ selected' = Selection(nreq + 1, limiters, signed.sel, now)
           /\ stats' = IF rs.Success
                       THEN [stats EXCEPT ![rs.Queue] = AddInt64(@, delay, now)]
                       ELSE stats
           /\ samples' = IF rs.Success
                         THEN [samples EXCEPT ![rs.Queue] =
                                  Append(@, [time |-> now, value |-> delay])]
                         ELSE samples
           /\ issued' = IF rs.Success
                        THEN Append(issued, [token |-> rs.XBlitzReservation,
                                             queue |-> rs.Queue, at |-> now,
                                             from |-> signed.from,
                                             until |-> signed.to])
                        ELSE issued
           /\ resp' = [Response(nreq + 1, req, now, "serveReservation") EXCEPT
                         !.status = 200, !.rs = rs, !.index = signed.sel.index,
                         !.delay = IF rs.Success THEN delay ELSE 0]
    /\ nreq' = nreq + 1
    /\ UNCHANGED <<now, waiting, downstream, calls>>

\* any other method on /blitz/
MethodNotAllowed(req) ==
    /\ ServeHTTPRoute(req) = "MethodNotAllowed"
    /\ resp' = [Response(nreq + 1, req, now, "MethodNotAllowed") EXCEPT
                  !.status = 405, !.body = "Method Not Allowed"]
    /\ nreq' = nreq + 1
    /\ UNCHANGED <<now, limiters, stats, waiting, downstream, issued, selected,
                   samples, calls>>

\* a request with X-Blitz-Reservation, up to the select of useReservation
serveUseReservation(req) ==
    /\ ServeHTTPRoute(req) = "serveUseReservation"
    /\ LET token == req.header[HeaderReservation]
           use == useReservation(token, now)
           base == Response(nreq + 1, req, now, "serveUseReservation")
       IN  IF use.wait
           THEN /\ waiting' = waiting \cup
                       {Suspended(nreq + 1, req, "serveUseReservation",
                                  use.validFrom, -1, NilReservation)}
                /\ UNCHANGED <<resp, downstream>>
           ELSE IF use.err # ""
           THEN /\ resp' = [base EXCEPT !.status = 400, !.body = "Bad Request",
                                        !.err = use.err]
                /\ UNCHANGED <<waiting, downstream>>
           ELSE /\ resp' = [base EXCEPT !.forwarded = TRUE]
                /\ downstream' = Append(downstream,
                       Forwarded(nreq + 1, forwardHeader(req.header), -1, token))
                /\ UNCHANGED waiting
    /\ nreq' = nreq + 1
    /\ UNCHANGED <<now, limiters, stats, issued, selected, samples, calls>>

\* the context of a suspended request is cancelled (the client went away)
ContextCancel(w) ==
    /\ w \in waiting /\ ~w.ctxDone
    /\ waiting' = (waiting \ {w}) \cup {[w EXCEPT !.ctxDone = TRUE, !.cancelAt = now]}
    /\ UNCHANGED <<now, limiters, stats, nreq, resp, downstream, issued, selected,
                   samples, calls>>

\* the select of useReservation takes "case <-time.After(time.Until(validFrom))"
useReservationTimer(w) ==
    /\ w \in waiting /\ w.route = "serveUseReservation"
    /\ "time.After" \in Ready(w)
    /\ waiting' = waiting \ {w}
    /\ resp' = [Response(w.id, w.req, w.at, w.route) EXCEPT !.forwarded = TRUE,
                  !.delay = w.timer - w.at, !.cancelAt = w.cancelAt]
    /\ downstream' = Append(downstream,
           Forwarded(w.id, forwardHeader(w.req.header), -1,
                     w.req.header[HeaderReservation]))
    /\ UNCHANGED <<now, limiters, stats, nreq, issued, selected, samples, calls>>

\* the select of useReservation takes "case <-ctx.Done()"
useReservationDone(w) ==
    /\ w \in waiting /\ w.route = "serveUseReservation"
    /\ "ctx.Done" \in Ready(w)
    /\ waiting' = waiting \ {w}
    /\ resp' = [Response(w.id, w.req, w.at, w.route) EXCEPT !.status = 400,
                  !.body = "Bad Request", !.err = errContextCanceled,
                  !.delay = w.timer - w.at, !.cancelAt = w.cancelAt]
    /\ UNCHANGED <<now, limiters, stats, nreq, downstream, issued, selected,
                   samples, calls>>

\* a request without X-Blitz-Reservation, up to the select of serveRegular
serveRegular(req) ==
    /\ ServeHTTPRoute(req) = "serveRegular"
    /\ \E sel \in {reserve(limiters, getQueueHeader(req), now)} :
       \E delay \in {DelayFrom(sel.r, now)} :
       \E base \in {Response(nreq + 1, req, now, "serveRegular")} :
           /\ limiters' = sel.lims
           /\ selected' = Selection(nreq + 1, limiters, sel, now)
           /\ IF sel.index = -1 \/ delay = InfDuration
              THEN /\ resp' = [base EXCEPT !.status = 502, !.body = "infinite delay"]
                   /\ UNCHANGED <<stats, samples, waiting>>
              ELSE /\ stats' = [stats EXCEPT ![sel.index] = AddInt64(@, delay, now)]
                   /\ samples' = [samples EXCEPT ![sel.index] =
                                     Append(@, [time |-> now, value |-> delay])]
                   /\ waiting' = waiting \cup
                          {Suspended(nreq + 1, req, "serveRegular", now + delay,
                                     sel.index, sel.r)}
                   /\ UNCHANGED resp
    /\ nreq' = nreq + 1
    /\ UNCHANGED <<now, downstream, issued, calls>>

\* the select of serveRegular takes "case <-time.After(delay)"
serveRegularTimer(w) ==
    /\ w \in waiting /\ w.route = "serveRegular"
    /\ "time.After" \in Ready(w)
    /\ waiting' = waiting \ {w}
    /\ resp' = [Response(w.id, w.req, w.at, w.route) EXCEPT !.forwarded = TRUE,
                  !.index = w.index, !.delay = w.timer - w.at,
                  !.cancelAt = w.cancelAt]
    /\ downstream' = Append(downstream,
           Forwarded(w.id, forwardHeader(w.req.header), w.index, <<>>))
    /\ UNCHANGED <<now, limiters, stats, nreq, issued, selected, samples, calls>>

\* the select of serveRegular takes "case <-r.Context().Done()"
serveRegularDone(w) ==
    /\ w \in waiting /\ w.route = "serveRegular"
    /\ "ctx.Done" \in Ready(w)
    /\ waiting' = waiting \ {w}
    /\ limiters' = regularCancelled(limiters, w.index, w.r, now)
    /\ resp' = [Response(w.id, w.req, w.at, w.route) EXCEPT !.status = 502,
                  !.body = "Request cancelled by client",
                  !.index = w.index, !.delay = w.timer - w.at,
                  !.cancelAt = w.cancelAt]
    /\ UNCHANGED <<now, stats, nreq, downstream, issued, selected, samples, calls>>

\* the clock advances, unless a suspended handler can resume
Tick ==
    /\ now < MaxTime
    /\ \A w \in waiting : Ready(w) = {}
    /\ now' = now + 1
    /\ UNCHANGED <<limiters, stats, nreq, waiting, resp, downstream, issued, selected,
                   samples, calls>>

\* ServeHTTP(w, r) for some request r, by the handler r is routed to
ServeStatus == nreq < MaxRequests /\ \E req \in Requests : serveStatus(req)
ServeReservation == nreq < MaxRequests /\ \E req \in Requests : serveReservation(req)
ServeNotAllowed == nreq < MaxRequests /\ \E req \in Requests : MethodNotAllowed(req)
ServeUseReservation ==
    nreq < MaxRequests /\ \E req \in Requests : serveUseReservation(req)
ServeRegular == nreq < MaxRequests /\ \E req \in Requests : serveRegular(req)

\* a suspended handler's context is cancelled, or its select proceeds
Cancelled == \E w \in waiting : ContextCancel(w)
UseReservationTimer == \E w \in waiting : useReservationTimer(w)
UseReservationDone == \E w \in waiting : useReservationDone(w)
ServeRegularTimer == \E w \in waiting : serveRegularTimer(w)
ServeRegularDone == \E w \in waiting : serveRegularDone(w)

Next ==
    \/ Tick
    \/ ServeStatus
    \/ ServeReservation
    \/ ServeNotAllowed
    \/ ServeUseReservation
    \/ ServeRegular
    \/ Cancelled
    \/ UseReservationTimer
    \/ UseReservationDone
    \/ ServeRegularTimer
    \/ ServeRegularDone

Spec == Init /\ [][Next]_vars

(***************************************************************************)
(* Clients that only mint reservations and present them.                   *)
(***************************************************************************)
ReplayMint == nreq < MaxReplayed /\ \E req \in Requests : serveReservation(req)
ReplayUse == nreq < MaxReplayed /\ \E req \in Requests : serveUseReservation(req)

NextReplay ==
    \/ Tick
    \/ ReplayMint
    \/ ReplayUse
    \/ Cancelled
    \/ UseReservationTimer
    \/ UseReservationDone

SpecReplay == Init /\ [][NextReplay]_vars

(***************************************************************************)
(* The selector: claims C5, C6, C7.                                        *)
(***************************************************************************)
SelectorRan == selected.id # 0
SelectorSucceeded == SelectorRan /\ selected.index # -1

\* the slots of reservations[] the selector filled (the reservations it minted)
Minted == {i \in DOMAIN selected.reservations : ~selected.reservations[i].nil}

RECURSIVE SumSeq(_, _)
SumSeq(seq, i) == IF i > Len(seq) THEN 0 ELSE seq[i] + SumSeq(seq, i + 1)

\* C5: a successful reserve(Q), Q in [0, n-1], returns an index k in [0..Q]
\* and a reservation whose delay is at most the delay every queue in [0..Q]
\* would have granted at that moment; if queue 0 offers delay 0 and every
\* queue in [1..Q] a delay > 0, the request is served via queue 0.
C5_LowestDelaySelection ==
    SelectorSucceeded =>
        /\ selected.queue \in Queues
        /\ selected.index \in 0 .. selected.queue
        /\ selected.delay = selected.offered[selected.index]
        /\ \A i \in 0 .. selected.queue : selected.delay <= selected.offered[i]
        /\ (/\ selected.offered[0] = 0
            /\ \A i \in 1 .. selected.queue : selected.offered[i] > 0)
           => selected.index = 0

\* a request for queue 1 is downgraded: queue 1 would have made it wait,
\* queue 0 would not
C5_Witness ==
    /\ SelectorSucceeded
    /\ selected.queue = 1
    /\ selected.offered[1] > 0 /\ selected.offered[1] < InfDuration
    /\ selected.offered[0] = 0
    /\ selected.index = 0

\* C6: the index a successful reserve(Q) returns is the highest index in
\* [0..Q] that attains the minimum delay: equal delays on all of [0..Q] are
\* served via Q, and an index below Q is returned only when its delay is
\* strictly lower than that of every higher index.
C6_TieKeepsPriority ==
    SelectorSucceeded =>
        /\ \A i \in 0 .. selected.queue :
              selected.offered[i] <= selected.offered[selected.index]
                 => i <= selected.index
        /\ (\A i \in 0 .. selected.queue :
               selected.offered[i] = selected.offered[selected.queue])
           => selected.index = selected.queue
        /\ \A i \in (selected.index + 1) .. selected.queue :
              selected.offered[selected.index] < selected.offered[i]

\* both queues would make the request wait equally long, and queue 1 keeps it
C6_Witness ==
    /\ SelectorSucceeded
    /\ selected.queue = 1
    /\ selected.offered[0] = selected.offered[1]
    /\ selected.offered[1] > 0
    /\ selected.index = 1

\* C7: when reserve returns, Cancel has been called exactly once on every
\* reservation it minted other than the returned one and never on the
\* returned one: the cancels number the minted reservations, less one on
\* success.
C7_NoLeakedReservations ==
    SelectorRan =>
        /\ \A i \in DOMAIN selected.reservations :
              selected.cancels[i + 1] =
                 IF i \in Minted /\ i # selected.index THEN 1 ELSE 0
        /\ selected.index # -1 => selected.index \in Minted
        /\ SumSeq(selected.cancels, 1) =
              Cardinality(Minted) - (IF selected.index # -1 THEN 1 ELSE 0)

\* a run that minted on both queues, returned the reservation of queue 1 and
\* cancelled the one of queue 0
C7_Witness ==
    /\ SelectorSucceeded
    /\ Minted = {0, 1}
    /\ selected.index = 1
    /\ selected.cancels = <<1, 0>>

\* a failed run that cancelled both reservations it minted
C7_WitnessFailure ==
    /\ SelectorRan /\ selected.index = -1
    /\ Minted = {0, 1}
    /\ selected.cancels = <<1, 1>>

(***************************************************************************)
(* Forwarding and cancellation: claims C8, C9, C10.                        *)
(***************************************************************************)
\* the calls of the downstream handler made for request id
ForwardsOf(id) == {k \in 1 .. Len(downstream) : downstream[k].id = id}

\* C8: the request handed to the downstream handler, by serveUseReservation
\* and by serveRegular, carries neither X-Blitz-Reservation nor X-Blitz-Queue.
C8_HeaderScrubbing ==
    \A k \in 1 .. Len(downstream) :
       /\ downstream[k].header[HeaderReservation] = <<>>
       /\ downstream[k].header[HeaderQueue] = ""

\* a request that came with both headers has been forwarded
C8_Witness ==
    /\ resp.forwarded
    /\ resp.req.header[HeaderReservation] # <<>>
    /\ resp.req.header[HeaderQueue] # ""
    /\ ForwardsOf(resp.id) # {}

\* a transparent request that came with X-Blitz-Queue has been forwarded
C8_WitnessRegular ==
    /\ resp.forwarded /\ resp.route = "serveRegular"
    /\ resp.req.header[HeaderQueue] # ""
    /\ ForwardsOf(resp.id) # {}

\* the context of the finished request was cancelled before its delay was over
CancelledMidWait ==
    /\ resp.route = "serveRegular"
    /\ resp.cancelAt # -1
    /\ resp.cancelAt < resp.at + resp.delay

\* C9: a transparent request whose context is cancelled before its delay has
\* elapsed is answered 502 "Request cancelled by client", and the downstream
\* handler is never invoked for it.
C9_ClientCancelMidWait ==
    /\ CancelledMidWait =>
          /\ resp.status = 502
          /\ resp.body = "Request cancelled by client"
          /\ ~resp.forwarded
          /\ ForwardsOf(resp.id) = {}
    /\ \A w \in waiting : ForwardsOf(w.id) = {}

\* a request that had to wait was cancelled before the wait was over
C9_Witness ==
    /\ CancelledMidWait
    /\ resp.delay > 0
    /\ resp.status = 502

\* a step in which a suspended transparent request ends
RegularEnds ==
    /\ resp' # resp
    /\ resp'.route = "serveRegular"
    /\ \E w \in waiting : w.id = resp'.id

\* C10: the reservation the selector returns is never cancelled afterwards:
\* it is uncancelled when the selector returns, on the mint path and the
\* transparent path, and the end of a transparent request, by cancellation
\* as by forwarding, leaves every limiter as it was.
C10_WinnersNotRolledBack ==
    [][/\ SelectorSucceeded' => selected'.cancels[selected'.index + 1] = 0
       /\ RegularEnds => limiters' = limiters]_vars

\* a cancelled transparent request, while its slot of the queue is still ahead
C10_Witness ==
    /\ CancelledMidWait
    /\ resp.status = 502
    /\ limiters[resp.index].lastEvent >= resp.at + resp.delay
    /\ limiters[resp.index].lastEvent > now

(***************************************************************************)
(* Tokens and the rate cap: claims C1, C2, C3, C4.                         *)
(***************************************************************************)
\* the token the finished request presented, decoded
PresentedToken == resp.req.header[HeaderReservation]
Presented == Decode(PresentedToken)
PresentedSigned ==
    /\ resp.route = "serveUseReservation"
    /\ Presented.err = ""

\* the queues that minted token
MintedBy(token) ==
    {issued[k].queue : k \in {j \in 1 .. Len(issued) : issued[j].token = token}}

\* the requests handed downstream in [from, from + length) that were admitted
\* via queue i: transparent requests that waited on i, and requests that
\* presented a token only i minted
ForwardedVia(i, from, length) ==
    {k \in 1 .. Len(downstream) :
        /\ downstream[k].at >= from
        /\ downstream[k].at < from + length
        /\ \/ downstream[k].index = i
           \/ /\ downstream[k].token # <<>>
              /\ MintedBy(downstream[k].token) = {i}}

\* C1: in every window of length T >= E, at most floor(B[i] * (T / E)) + B[i]
\* requests admitted via queue i are handed to the downstream handler.
C1_RateCap ==
    \A i \in Queues, from \in 0 .. MaxTime, length \in every .. (MaxTime + 1) :
       Cardinality(ForwardedVia(i, from, length))
          <= (limiters[i].burst * length) \div every + limiters[i].burst

\* C2: a request presenting a correctly signed token at a time t with
\* validFrom <= t < validUntil is accepted by useReservation and forwarded.
C2_TokenValidityWindow ==
    (/\ PresentedSigned
     /\ Presented.from <= resp.at
     /\ resp.at < Presented.until)
    => /\ resp.err = ""
       /\ resp.forwarded
       /\ ForwardsOf(resp.id) # {}

\* C3: a request presenting a correctly signed token at a time t >= validUntil
\* gets the reservation-expired error and 400 and is never forwarded; and that
\* error is returned only when t >= validUntil.
C3_TokenExpiry ==
    PresentedSigned =>
        /\ resp.at >= Presented.until =>
              /\ resp.err = errReservationExpired
              /\ resp.status = 400
              /\ ~resp.forwarded
              /\ ForwardsOf(resp.id) = {}
        /\ resp.err = errReservationExpired => resp.at >= Presented.until

\* C4: a token accounts for at most one downstream request: the requests
\* forwarded with a token never outnumber the mints that issued it.
C4_TokenConsumedByUse ==
    \A token \in IssuedTokens :
       Cardinality({k \in 1 .. Len(downstream) : downstream[k].token = token})
          <= Cardinality({k \in 1 .. Len(issued) : issued[k].token = token})

\* the half of C3 the code keeps: at t >= validUntil the token is refused
TokenRefusedAfterUntil ==
    (PresentedSigned /\ resp.at >= Presented.until) =>
        /\ resp.err = errReservationExpired
        /\ resp.status = 400
        /\ ~resp.forwarded
        /\ ForwardsOf(resp.id) = {}

\* the part of C2 the code keeps: strictly inside the window the token passes
TokenAcceptedInsideWindow ==
    (PresentedSigned /\ Presented.from < resp.at /\ resp.at < Presented.until) =>
        /\ resp.err = ""
        /\ resp.forwarded
        /\ ForwardsOf(resp.id) # {}

(***************************************************************************)
(* The refill rate: claim C11.  Engines whose queues have burst sizes up   *)
(* to MaxBurst + 1, serving transparent requests.                          *)
(***************************************************************************)
InitRefill ==
    /\ now = 0
    /\ \E bs \in [Queues -> 1 .. (MaxBurst + 1)] : New(bs)
    /\ nreq = 0
    /\ waiting = {}
    /\ resp = NoResponse
    /\ downstream = <<>>
    /\ issued = <<>>
    /\ selected = NoSelection
    /\ samples = [i \in Queues |-> <<>>]
    /\ calls = {}

NextRefill ==
    \/ Tick
    \/ ServeRegular
    \/ ServeRegularTimer

SpecRefill == InitRefill /\ [][NextRefill]_vars

\* what bucket i lacks, in 1/TokenUnit of a token
Deficit(i) == IF limiters[i].tokens < 0 THEN -limiters[i].tokens ELSE 0

\* C11: queue i refills one token per E / B[i]: the request that takes the
\* bucket x tokens below empty is assigned the delay x * E / B[i] (E / B[i]
\* for the first request after B[i] immediate admissions), and an emptied
\* bucket is full again after E.
C11_RefillRate ==
    /\ SelectorSucceeded =>
          selected.delay =
             (Deficit(selected.index) * every)
                \div (limiters[selected.index].burst * TokenUnit)
    /\ \A i \in Queues :
          limiters[i].tokens = 0 =>
             advance(limiters[i], limiters[i].last + every)
                = limiters[i].burst * TokenUnit

(***************************************************************************)
(* The statistics window: claim C12.  Clients that mint reservations and   *)
(* read the status, over a time longer than the window of 10 * every.      *)
(***************************************************************************)
StatsTime == 10 * every + 2

TickStats ==
    /\ now < StatsTime
    /\ now' = now + 1
    /\ UNCHANGED <<limiters, stats, nreq, waiting, resp, downstream, issued, selected,
                   samples, calls>>

\* an engine whose queues all have the burst size MaxBurst
InitStats ==
    /\ now = 0
    /\ New([i \in Queues |-> MaxBurst])
    /\ nreq = 0
    /\ waiting = {}
    /\ resp = NoResponse
    /\ downstream = <<>>
    /\ issued = <<>>
    /\ selected = NoSelection
    /\ samples = [i \in Queues |-> <<>>]
    /\ calls = {}

\* POST /blitz/ for the highest queue
StatsMint ==
    /\ nreq < MaxRequests
    /\ \E req \in Requests :
          /\ getQueueHeader(req) = NumQueues - 1
          /\ serveReservation(req)

NextStats ==
    \/ TickStats
    \/ ServeStatus
    \/ StatsMint

SpecStats == InitStats /\ [][NextStats]_vars

\* the samples of a sequence that are at most d old at instant t, in order
RECURSIVE InWindow(_, _, _, _)
InWindow(seq, i, t, d) ==
    IF i > Len(seq) THEN <<>>
    ELSE IF t - seq[i].time <= d
    THEN <<seq[i]>> \o InWindow(seq, i + 1, t, d)
    ELSE InWindow(seq, i + 1, t, d)

\* the last request was a status request: Average() ran on every ring at resp.at
AverageRan == resp.route = "serveStatus" /\ resp.id = nreq

\* C12: after Average() at time t on a ring with window W, no sample with
\* t - timestamp > W is left in the ring, every sample added with
\* t - timestamp <= W is still there, and the samples are in the order they
\* were added.
C12_StatsWindow ==
    AverageRan =>
        \A i \in Queues :
           /\ \A k \in 1 .. Len(stats[i].entries) :
                 resp.at - stats[i].entries[k].time <= stats[i].d
           /\ stats[i].entries = InWindow(samples[i], 1, resp.at, stats[i].d)

\* Average() dropped a sample that was too old and kept a younger one
C12_Witness ==
    /\ AverageRan
    /\ \E i \in Queues :
          /\ Len(stats[i].entries) > 0
          /\ Len(stats[i].entries) < Len(samples[i])

\* Average() kept a sample that was exactly as old as the window is long
C12_WitnessEdge ==
    /\ AverageRan
    /\ \E i \in Queues :
          /\ Len(stats[i].entries) > 0
          /\ resp.at - stats[i].entries[1].time = stats[i].d

(***************************************************************************)
(* The signer: claims C13, C14.                                            *)
(***************************************************************************)
\* an instant, cut to the millisecond it lies in
Truncated(t) == t - (t % Millisecond)

\* the instants Encode is tried on
Instants == 0 .. (MaxTime + every + Millisecond)

\* Decode(Encode(from, until)) gives back from and until to the millisecond
RoundTrips(token, from, until) ==
    /\ Decode(token).err = ""
    /\ Decode(token).from = Truncated(from)
    /\ Decode(token).until = Truncated(until)

\* C13: for all instants from <= until, Decode(Encode(from, until)) returns
\* no error and (from, until) truncated to the millisecond; so does every
\* token a mint hands out, for the instants the mint encoded.
C13_TokenRoundTrip ==
    /\ \A from \in Instants, until \in Instants :
          from <= until => RoundTrips(Encode(from, until), from, until)
    /\ \A k \in 1 .. Len(issued) :
          /\ issued[k].from <= issued[k].until
          /\ RoundTrips(issued[k].token, issued[k].from, issued[k].until)

\* a token was minted for an instant between two milliseconds
C13_Witness ==
    \E k \in 1 .. Len(issued) :
       /\ issued[k].from % Millisecond # 0
       /\ Decode(issued[k].token).err = ""
       /\ Decode(issued[k].token).from < issued[k].from

\* a number with its lowest bit flipped
FlipBit(n) == IF n % 2 = 0 THEN n + 1 ELSE n - 1

\* the texts that differ from a token in one bit: in a character of the
\* signature, of from or of until, in the spare bits of the last character
\* ('A' becomes 'C'), or so that a character leaves the base64 alphabet
BitFlips(token) ==
    {[token EXCEPT ![1] = <<"flipped", @[2]>>],
     [token EXCEPT ![2] = FlipBit(@)],
     [token EXCEPT ![3] = FlipBit(@)],
     [token EXCEPT ![4] = 2],
     [token EXCEPT ![5] = FALSE]}

TamperedTokens == UNION {BitFlips(token) : token \in IssuedTokens}

\* clients that mint reservations and present them with one bit flipped
TamperedUse ==
    /\ nreq < MaxRequests
    /\ \E token \in TamperedTokens :
          serveUseReservation([path |-> "/", method |-> "GET",
                               header |-> MakeHeader("", token)])

NextTamper ==
    \/ Tick
    \/ ServeReservation
    \/ TamperedUse
    \/ Cancelled
    \/ UseReservationTimer
    \/ UseReservationDone

SpecTamper == Init /\ [][NextTamper]_vars

\* C14: a token that differs in one bit from a token Encode produced makes
\* Decode return invalid-format or invalid-signature; the request that
\* carries it is answered 400 and is never forwarded (nor made to wait).
C14_TamperResistance ==
    /\ \A token \in TamperedTokens :
          Decode(token).err \in {errInvalidFormat, errInvalidSignature}
    /\ (resp.route = "serveUseReservation" /\ PresentedToken \in TamperedTokens)
          => /\ resp.status = 400
             /\ resp.err \in {errInvalidFormat, errInvalidSignature}
             /\ ~resp.forwarded
             /\ ForwardsOf(resp.id) = {}
    /\ \A w \in waiting : w.req.header[HeaderReservation] \notin TamperedTokens

\* what the code keeps of C14: a token that passes Decode carries the window
\* of a token this server issued
AcceptedTokensAreIssued ==
    \A token \in TamperedTokens \cup IssuedTokens :
       Decode(token).err = "" =>
          \E k \in 1 .. Len(issued) :
             /\ Decode(token).from = Decode(issued[k].token).from
             /\ Decode(token).until = Decode(issued[k].token).until

(***************************************************************************)
(* The record of a mint: claim C15.                                        *)
(***************************************************************************)
\* the last request that finished was a POST /blitz/
MintAnswered == resp.route = "serveReservation"

Abs(n) == IF n < 0 THEN -n ELSE n

\* C15: the record of a successful mint has Success = true, validFrom <=
\* validUntil, validUntil - validFrom = E in milliseconds, validFrom = the
\* instant of the mint + DelayInMilliseconds (less than a millisecond apart),
\* and a token that decodes to exactly (validFrom, validUntil); the record of
\* a failed mint has Success = false, every number zero and an empty token.
\* A mint succeeds exactly when the selector returned a queue.
C15_MintRecordConsistency ==
    MintAnswered =>
        /\ resp.status = 200
        /\ resp.rs.Success <=> resp.index # -1
        /\ resp.rs.Success =>
              /\ resp.rs.Queue = resp.index
              /\ resp.rs.TokenValidFromUnixMilliseconds
                    <= resp.rs.TokenValidUntilUnixMilliseconds
              /\ (resp.rs.TokenValidUntilUnixMilliseconds
                     - resp.rs.TokenValidFromUnixMilliseconds) * Millisecond = every
              /\ Abs(resp.rs.TokenValidFromUnixMilliseconds * Millisecond
                        - (resp.at + resp.rs.DelayInMilliseconds * Millisecond))
                    < Millisecond
              /\ Decode(resp.rs.XBlitzReservation).err = ""
              /\ Decode(resp.rs.XBlitzReservation).from
                    = resp.rs.TokenValidFromUnixMilliseconds * Millisecond
              /\ Decode(resp.rs.XBlitzReservation).until
                    = resp.rs.TokenValidUntilUnixMilliseconds * Millisecond
        /\ ~resp.rs.Success =>
              /\ resp.rs.Queue = 0
              /\ resp.rs.DelayInMilliseconds = 0
              /\ resp.rs.TokenValidFromUnixMilliseconds = 0
              /\ resp.rs.TokenValidUntilUnixMilliseconds = 0
              /\ resp.rs.XBlitzReservation = <<>>

\* a mint succeeded with a delay, at an instant between two milliseconds
C15_Witness ==
    /\ MintAnswered
    /\ resp.rs.Success
    /\ resp.rs.DelayInMilliseconds > 0
    /\ resp.at % Millisecond # 0

\* a mint failed
C15_WitnessFailure ==
    /\ MintAnswered
    /\ ~resp.rs.Success
    /\ resp.index = -1

(***************************************************************************)
(* The front door: claims C16, C17.  Clients that send requests on         *)
(* /blitz/ and on other paths, with and without the two control headers.   *)
(***************************************************************************)
FrontDoorQueueValues == {"", "0", "1", "9", "-1", "x"}

\* a header value that is not a token of this server
Garbage == <<"garbage">>

FrontDoorRequests ==
    LET Req(path, method, queue, token) ==
            [path |-> path, method |-> method, header |-> MakeHeader(queue, token)]
    IN  {Req("/blitz/", m, "", <<>>) : m \in {"GET", "POST", "DELETE"}}
        \cup {Req("/blitz/", m, "1", tok) :
                 m \in {"GET", "POST", "DELETE"}, tok \in {Garbage} \cup IssuedTokens}
        \cup {Req("/blitz/", "POST", q, <<>>) : q \in FrontDoorQueueValues}
        \cup {Req("/", "GET", q, <<>>) : q \in FrontDoorQueueValues}
        \cup {Req("/blitz", "GET", "", <<>>)}
        \cup {Req("/", "GET", "1", tok) : tok \in {Garbage} \cup IssuedTokens}

FrontDoorStatus ==
    nreq < MaxRequests /\ \E req \in FrontDoorRequests : serveStatus(req)
FrontDoorReservation ==
    nreq < MaxRequests /\ \E req \in FrontDoorRequests : serveReservation(req)
FrontDoorNotAllowed ==
    nreq < MaxRequests /\ \E req \in FrontDoorRequests : MethodNotAllowed(req)
FrontDoorUseReservation ==
    nreq < MaxRequests /\ \E req \in FrontDoorRequests : serveUseReservation(req)
FrontDoorRegular ==
    nreq < MaxRequests /\ \E req \in FrontDoorRequests : serveRegular(req)

NextFrontDoor ==
    \/ Tick
    \/ FrontDoorStatus
    \/ FrontDoorReservation
    \/ FrontDoorNotAllowed
    \/ FrontDoorUseReservation
    \/ FrontDoorRegular
    \/ Cancelled
    \/ UseReservationTimer
    \/ UseReservationDone
    \/ ServeRegularTimer
    \/ ServeRegularDone

SpecFrontDoor == InitStats /\ [][NextFrontDoor]_vars

\* the requests with number id that are suspended or were answered last
RequestsOf(id) ==
    {w.req : w \in {v \in waiting : v.id = id}}
       \cup (IF resp.id = id /\ id # 0 THEN {resp.req} ELSE {})

\* the handler a request is meant for
FrontDoor(req) ==
    IF req.path = "/blitz/"
    THEN (IF req.method = "GET" THEN "serveStatus"
          ELSE IF req.method = "POST" THEN "serveReservation"
          ELSE "MethodNotAllowed")
    ELSE (IF req.header[HeaderReservation] # <<>> THEN "serveUseReservation"
          ELSE "serveRegular")

\* C16: a request on the path /blitz/ is never forwarded and never waits,
\* whatever its headers: GET is answered with the status, POST mints a
\* reservation, every other method gets 405; a request on any other path
\* takes the reservation-use path iff its X-Blitz-Reservation is not empty
\* and the transparent path otherwise.
C16_FrontDoorRouting ==
    /\ \A w \in waiting :
          /\ w.req.path # "/blitz/"
          /\ w.route = FrontDoor(w.req)
    /\ resp.id # 0 =>
          /\ resp.route = FrontDoor(resp.req)
          /\ resp.req.path = "/blitz/" =>
                /\ ~resp.forwarded
                /\ ForwardsOf(resp.id) = {}
                /\ resp.doneAt = resp.at
                /\ resp.req.method = "GET" =>
                      resp.status = 200 /\ DOMAIN resp.st.Slots = Queues
                /\ resp.req.method = "POST" =>
                      /\ resp.status = 200
                      /\ resp.rs.Success
                            => resp.rs.XBlitzReservation \in IssuedTokens
                /\ resp.req.method \notin {"GET", "POST"} => resp.status = 405
          /\ resp.route = "serveUseReservation" =>
                resp.req.header[HeaderReservation] # <<>>
          /\ resp.route = "serveRegular" =>
                resp.req.header[HeaderReservation] = <<>>

\* a POST on /blitz/ that carried a token of this server and X-Blitz-Queue
\* was answered with a reservation
C16_Witness ==
    /\ resp.req.path = "/blitz/" /\ resp.req.method = "POST"
    /\ resp.req.header[HeaderReservation] \in IssuedTokens
    /\ resp.req.header[HeaderQueue] # ""
    /\ resp.rs.Success

\* a request on /blitz (no slash at the end) was forwarded as a transparent one
C16_WitnessOtherPath ==
    /\ resp.req.path = "/blitz"
    /\ resp.route = "serveRegular"
    /\ resp.forwarded

\* the decimal numerals of the queue indices
Numeral == <<"0", "1", "2", "3">>

\* the queues in [0, n-1] that the text names
QueueNamed(str) == {i \in Queues : i + 1 <= Len(Numeral) /\ Numeral[i + 1] = str}

\* C17: the selector is run with the index X-Blitz-Queue names when that is
\* a decimal integer in [0, n-1], and with 0 when the header is missing,
\* unparseable, negative or >= n: it is never run with an index outside
\* [0, n-1].
C17_QueueHeaderHandling ==
    SelectorRan =>
        /\ selected.queue \in Queues
        /\ \A req \in RequestsOf(selected.id) :
              /\ QueueNamed(req.header[HeaderQueue]) # {}
                    => selected.queue \in QueueNamed(req.header[HeaderQueue])
              /\ QueueNamed(req.header[HeaderQueue]) = {}
                    => selected.queue = 0

\* the selector was run with 0 for a request whose header names no queue
C17_Witness ==
    /\ SelectorRan
    /\ selected.queue = 0
    /\ \E req \in RequestsOf(selected.id) :
          req.header[HeaderQueue] \in {"9", "-1", "x"}

\* the selector was run with the queue the header names
C17_WitnessNamed ==
    /\ SelectorRan
    /\ selected.queue = 1
    /\ \E req \in RequestsOf(selected.id) : req.header[HeaderQueue] = "1"

(***************************************************************************)
(* Infinite delays: claim C18.                                             *)
(***************************************************************************)
\* the selector got reservations, and none of them is OK: all delays are +oo
AllInfinite ==
    /\ Minted # {}
    /\ \A i \in Minted : ~selected.reservations[i].ok

\* C18: when every reservation the selector obtained has delay +oo, the
\* selector returns -1 after it cancelled them all; the transparent request
\* is answered 502 "infinite delay" (the model's text for the body) in the
\* same step, without waiting, without a sample for the statistics and
\* without a call of the downstream handler; the mint answers Success = false.
C18_InfiniteDelayFails ==
    [][(selected'.id # selected.id /\ AllInfinite') =>
          /\ selected'.index = -1
          /\ \A i \in Minted' : selected'.cancels[i + 1] = 1
          /\ resp'.id = selected'.id
          /\ resp'.doneAt = resp'.at
          /\ ~resp'.forwarded
          /\ waiting' = waiting
          /\ downstream' = downstream
          /\ stats' = stats
          /\ samples' = samples
          /\ resp'.route = "serveRegular" =>
                resp'.status = 502 /\ resp'.body = "infinite delay"
          /\ resp'.route = "serveReservation" =>
                ~resp'.rs.Success /\ resp'.rs = FailedReservation]_vars

\* a transparent request found both queues without a slot and was refused
C18_Witness ==
    /\ resp.route = "serveRegular"
    /\ resp.id = selected.id
    /\ AllInfinite
    /\ Minted = {0, 1}
    /\ resp.status = 502

\* a mint found no queue with a slot
C18_WitnessMint ==
    /\ resp.route = "serveReservation"
    /\ resp.id = selected.id
    /\ AllInfinite
    /\ ~resp.rs.Success

(***************************************************************************)
(* The configuration: claim C19.                                           *)
(***************************************************************************)
\* C19: New fails when a burst size B[i] is <= 0, so every queue of an
\* engine that was constructed has a positive burst size.
C19_PositiveBurstSizes == \A i \in Queues : limiters[i].burst > 0

\* what an engine with a queue of burst size 0 does: that queue never gives
\* a slot, no request is ever answered via it
EmptyQueueNeverServes ==
    \A i \in Queues :
       limiters[i].burst = 0 =>
          /\ \A k \in 1 .. Len(downstream) : downstream[k].index # i
          /\ \A k \in 1 .. Len(issued) : issued[k].queue # i

(***************************************************************************)
(* Concurrent runs of the selector: claim C20.  blitz.reserve holds no     *)
(* lock of its own: between two of its calls of Reserve() and Cancel(),    *)
(* each atomic in the limiter, other handlers run theirs.  A run is kept   *)
(* in calls with its locals (s, whose lims are the shared limiters at the  *)
(* step) and its position: in the first loop, in the second, or returned.  *)
(* All runs read the same clock value.                                     *)
(***************************************************************************)
CallLocals(c) == [c.s EXCEPT !.lims = limiters]
Stored(s) == [s EXCEPT !.lims = <<>>]

LeaveCallsAlone ==
    UNCHANGED <<now, stats, waiting, resp, downstream, issued, selected, samples>>

\* a handler enters blitz.reserve(queue)
CallStart ==
    /\ nreq < MaxCalls
    /\ \E queue \in Queues :
          calls' = calls \cup
             {[id |-> nreq + 1, pc |-> "scan", index |-> -1,
               s |-> Stored(reserveStart(limiters, queue))]}
    /\ nreq' = nreq + 1
    /\ UNCHANGED limiters
    /\ LeaveCallsAlone

\* one pass of the first loop: Reserve() and Delay()
CallScan ==
    /\ \E c \in calls :
          /\ c.pc = "scan"
          /\ scanContinues(c.s.nextInit, c.s.lowestDelayValue)
          /\ \E s \in {scanReserve(CallLocals(c),
                                   Reserve(limiters[c.s.nextInit], now), now)} :
                /\ limiters' = s.lims
                /\ calls' = (calls \ {c}) \cup {[c EXCEPT !.s = Stored(s)]}
    /\ UNCHANGED nreq
    /\ LeaveCallsAlone

\* the first loop ends: "nextInit++"
CallScanEnd ==
    /\ \E c \in calls :
          /\ c.pc = "scan"
          /\ ~scanContinues(c.s.nextInit, c.s.lowestDelayValue)
          /\ calls' = (calls \ {c}) \cup
                {[c EXCEPT !.pc = "cancel", !.s.nextInit = @ + 1]}
    /\ UNCHANGED <<nreq, limiters>>
    /\ LeaveCallsAlone

\* one pass of the second loop: Cancel() unless the reservation is the picked one
CallCancel ==
    /\ \E c \in calls :
          /\ c.pc = "cancel"
          /\ cancelContinues(c.s)
          /\ \E s \in {cancelStep(CallLocals(c), now)} :
                /\ limiters' = s.lims
                /\ calls' = (calls \ {c}) \cup {[c EXCEPT !.s = Stored(s)]}
    /\ UNCHANGED nreq
    /\ LeaveCallsAlone

\* the run returns the picked reservation and its index
CallReturn ==
    /\ \E c \in calls :
          /\ c.pc = "cancel"
          /\ ~cancelContinues(c.s)
          /\ calls' = (calls \ {c}) \cup
                {[c EXCEPT !.pc = "done", !.index = c.s.lowestDelayIndex]}
    /\ UNCHANGED <<nreq, limiters>>
    /\ LeaveCallsAlone

NextConcurrent ==
    \/ CallStart
    \/ CallScan
    \/ CallScanEnd
    \/ CallCancel
    \/ CallReturn

SpecConcurrent == Init /\ [][NextConcurrent]_vars

\* every run of the selector has returned
AllReturned == calls # {} /\ \A c \in calls : c.pc = "done"

\* the runs that returned queue i
Winners(i) == {c \in calls : c.pc = "done" /\ c.index = i}

\* C20: whatever the interleaving of concurrent runs of the selector, once
\* all have returned each bucket is debited by exactly one token for every
\* run that won on its queue (no time passes, so nothing is refilled): a
\* reservation that lost leaves no debit.
C20_NoDoubleConsumption ==
    AllReturned =>
        \A i \in Queues :
           limiters[i].tokens =
              (limiters[i].burst - Cardinality(Winners(i))) * TokenUnit

(***************************************************************************)
(* Transparent requests wait out their delay: claim C21.                   *)
(***************************************************************************)
\* the finished request is a transparent request that was forwarded
RegularForwarded == resp.route = "serveRegular" /\ resp.forwarded

\* C21: a transparent request whose selected reservation has delay d, obtained
\* at instant t, is handed to the downstream handler only at or after t + d,
\* and at most once; while it waits it has not been handed over.
C21_NotForwardedEarly ==
    /\ RegularForwarded =>
          /\ Cardinality(ForwardsOf(resp.id)) = 1
          /\ \A k \in ForwardsOf(resp.id) :
                 downstream[k].at >= resp.at + resp.delay
    /\ \A id \in 1 .. nreq : Cardinality(ForwardsOf(id)) <= 1
    /\ \A w \in waiting :
          w.route = "serveRegular" => now <= w.timer /\ ForwardsOf(w.id) = {}

\* a transparent request that had to wait a whole second was forwarded
C21_Witness ==
    /\ RegularForwarded
    /\ resp.delay >= Second
    /\ \E k \in ForwardsOf(resp.id) : downstream[k].at = resp.at + resp.delay

(***************************************************************************)
(* Tokens presented early: claim C22.                                      *)
(***************************************************************************)
\* the finished request presented a correctly signed token before validFrom
EarlyPresented == PresentedSigned /\ resp.at < Presented.from

\* C22: a request presenting a correctly signed token at a time t < validFrom
\* is forwarded to the downstream handler only at or after validFrom; if its
\* cancellation signal fires first, useReservation returns the cancellation
\* error, the response is 400 and the request is never forwarded.
C22_EarlyTokensWait ==
    /\ EarlyPresented =>
          /\ resp.forwarded =>
                /\ ForwardsOf(resp.id) # {}
                /\ \A k \in ForwardsOf(resp.id) :
                       downstream[k].at >= Presented.from
          /\ (resp.cancelAt # -1 /\ resp.cancelAt < Presented.from) =>
                /\ resp.err = errContextCanceled
                /\ resp.status = 400
                /\ ~resp.forwarded
                /\ ForwardsOf(resp.id) = {}
    /\ \A w \in waiting :
          w.route = "serveUseReservation" =>
             /\ ForwardsOf(w.id) = {}
             /\ now <= Decode(w.req.header[HeaderReservation]).from

\* a token presented before validFrom was forwarded, at validFrom
C22_Witness ==
    /\ EarlyPresented
    /\ resp.forwarded
    /\ \E k \in ForwardsOf(resp.id) : downstream[k].at = Presented.from

\* a token presented before validFrom, whose request was cancelled while waiting
C22_WitnessCancelled ==
    /\ EarlyPresented
    /\ resp.cancelAt # -1 /\ resp.cancelAt < Presented.from
    /\ resp.status = 400

(***************************************************************************)
(* Termination: claim C23.  The clock runs on for as long as a handler is  *)
(* suspended before its timer; the runtime fires every timer that is due   *)
(* and schedules every handler whose select can proceed, which is the weak *)
(* fairness of the clock and of the four resumptions.  Nothing makes a     *)
(* client send a request or cancel one.                                    *)
(***************************************************************************)
\* the clock advances up to the last timer set, unless a handler can resume
TickLive ==
    /\ now < MaxTime \/ \E w \in waiting : now < w.timer
    /\ \A w \in waiting : Ready(w) = {}
    /\ now' = now + 1
    /\ UNCHANGED <<limiters, stats, nreq, waiting, resp, downstream, issued, selected,
                   samples, calls>>

NextLive ==
    \/ TickLive
    \/ ServeStatus
    \/ ServeReservation
    \/ ServeNotAllowed
    \/ ServeUseReservation
    \/ ServeRegular
    \/ Cancelled
    \/ UseReservationTimer
    \/ UseReservationDone
    \/ ServeRegularTimer
    \/ ServeRegularDone

SpecLive ==
    /\ Init
    /\ [][NextLive]_vars
    /\ WF_vars(TickLive)
    /\ WF_vars(UseReservationTimer)
    /\ WF_vars(UseReservationDone)
    /\ WF_vars(ServeRegularTimer)
    /\ WF_vars(ServeRegularDone)

\* request id is suspended in a select
IsWaiting(id) == \E w \in waiting : w.id = id

\* request id is suspended and its client has gone away
ClientGone(id) == \E w \in waiting : w.id = id /\ w.ctxDone

\* after the step, request id is suspended, or has been handed downstream
WaitsNext(id) == \E w \in waiting' : w.id = id
ForwardedNext(id) == \E k \in 1 .. Len(downstream') : downstream'[k].id = id

\* the terminal outcomes: a status or mint response (200), 405, 400, 502,
\* or the request handed to the downstream handler, which then answers
TerminalOutcome ==
    IF resp'.forwarded
    THEN resp'.status = 0 /\ ForwardedNext(resp'.id)
    ELSE resp'.status \in {200, 405, 400, 502} /\ ~ForwardedNext(resp'.id)

\* a step gives an outcome only to the request that arrives in it or to a
\* suspended request, which it resumes; an arriving request is answered or
\* suspended, never both
OneOutcome ==
    /\ resp' # resp =>
          /\ TerminalOutcome
          /\ ~WaitsNext(resp'.id)
          /\ \/ nreq' = nreq + 1 /\ resp'.id = nreq'
             \/ nreq' = nreq /\ IsWaiting(resp'.id)
    /\ nreq' # nreq =>
          /\ nreq' = nreq + 1
          /\ (resp' # resp) # WaitsNext(nreq')
    /\ \A id \in 1 .. MaxRequests :
          WaitsNext(id) /\ ~IsWaiting(id) => id = nreq' /\ nreq' = nreq + 1

\* C23: under fair timers every request handled by ServeHTTP reaches exactly
\* one terminal outcome (a status or mint response, 405, 400, 502, or the
\* downstream handler); a waiting request whose client does not cancel is
\* eventually forwarded, and no request waits forever.
C23_EveryRequestTerminates ==
    /\ [][OneOutcome]_vars
    /\ \A id \in 1 .. MaxRequests : IsWaiting(id) ~> ~IsWaiting(id)
    /\ \A id \in 1 .. MaxRequests :
          IsWaiting(id) ~> (ForwardsOf(id) # {} \/ ClientGone(id))

\* two requests waited at once, one on its delay and one on validFrom, and
\* the one that finished last was forwarded when its wait was over
C23_Witness ==
    /\ resp.forwarded /\ resp.delay > 0 /\ resp.cancelAt = -1
    /\ resp.doneAt = resp.at + resp.delay
    /\ \E k \in 1 .. Len(downstream) :
          /\ downstream[k].id # resp.id
          /\ (downstream[k].token = <<>>) # (resp.route = "serveRegular")
          /\ downstream[k].at > 0

(***************************************************************************)
(* The selector stops at the first zero delay: claim C24.                  *)
(***************************************************************************)
\* a step in which blitz.reserve runs
SelectorRuns == selected'.id # selected.id

\* C24: scanning from Q down to 0, the selector calls Reserve on no queue
\* with an index below the first queue that returned delay 0, and on no
\* queue with an index above Q; the limiters of all the queues it did not
\* call Reserve on are unchanged by the call.
C24_SelectorEarlyTermination ==
    [][SelectorRuns =>
         /\ \A i \in Minted' : i <= selected'.queue
         /\ \A i \in Minted' :
               DelayFrom(selected'.reservations[i], selected'.at) = 0
                  => \A j \in 0 .. (i - 1) : j \notin Minted'
         /\ \A i \in Queues \ Minted' : limiters'[i] = limiters[i]]_vars

\* a run for queue 1 that got delay 0 there and left queue 0, which has a
\* token, alone
C24_Witness ==
    /\ SelectorSucceeded
    /\ selected.queue = 1 /\ selected.index = 1 /\ selected.delay = 0
    /\ Minted = {1}
    /\ limiters[0].burst > 0
    /\ limiters[0] = NewLimiter(limiters[0].burst)

\* a run for queue 0 that had to wait and left queue 1, which has a token,
\* alone
C24_WitnessAbove ==
    /\ SelectorSucceeded
    /\ selected.queue = 0 /\ selected.delay > 0
    /\ Minted = {0}
    /\ limiters[1].burst > 0
    /\ limiters[1] = NewLimiter(limiters[1].burst)

(***************************************************************************)
(* Where the delay samples go: claim C25.                                  *)
(***************************************************************************)
\* a step in which the selector grants a reservation with a finite delay
SelectorGrants ==
    /\ SelectorRuns
    /\ selected'.index # -1
    /\ selected'.delay < InfDuration

\* the step appends one sample of this value to the ring of the queue the
\* selector returned and leaves the entries of the other rings alone
OneSample(value) ==
    \A i \in Queues :
       stats'[i].entries =
          IF i = selected'.index
          THEN Append(stats[i].entries, [time |-> now, value |-> value])
          ELSE stats[i].entries

NoSample == \A i \in Queues : stats'[i].entries = stats[i].entries

\* C25: each successful mint and each transparent request with a finite
\* delay appends exactly one sample, equal to the granted delay, to the stats
\* ring of the queue index the selector returned and none to any other ring;
\* failed selections, status requests, 405 responses and reservation uses
\* append no sample.
C25_SamplesToChosenQueue ==
    [][IF SelectorGrants THEN OneSample(selected'.delay) ELSE NoSample]_vars

\* the sample a granted step appends: the granted delay on the transparent
\* path, the granted delay cut to whole milliseconds on the mint path
SampleOfStep ==
    IF resp' # resp /\ resp'.route = "serveReservation"
    THEN (selected'.delay \div Millisecond) * Millisecond
    ELSE selected'.delay

\* what holds instead: one sample per granted reservation, in the ring of the
\* returned index, of the value SampleOfStep
SamplesToChosenQueueInMillis ==
    [][IF SelectorGrants THEN OneSample(SampleOfStep) ELSE NoSample]_vars

\* a request for queue 1 was served via queue 0, and the sample is in ring 0
SamplesWitnessDowngraded ==
    /\ SelectorSucceeded
    /\ selected.queue = 1 /\ selected.index = 0
    /\ Len(samples[0]) = 1 /\ Len(samples[1]) = 0
    /\ stats[0].entries = samples[0]

(***************************************************************************)
(* One stats ring under concurrent callers: claims C26, C27.  The ring is  *)
(* stats[0], made by NewStats(RingWindow); every call of Add, AddInt64 and *)
(* Average runs step by step, and `calls` holds the calls with the         *)
(* statement each is at.  samples[0] logs every sample with the value the  *)
(* caller handed over.                                                     *)
(***************************************************************************)
RingWindow == 1                   \* d of the ring, in clock readings
RingTime == RingWindow + 2        \* the clock stops here
SampleValues == {1, 3}

\* the calls that hold s.m: past Lock() and not yet returned
holdsMutex(cs) == {c \in cs : c.pc \notin {"Lock", "done"}}

\* a mutex that is never held
mutexAlwaysFree(cs) == TRUE

\* s.m.Lock() can proceed
mutexFree(cs) == holdsMutex(cs) = {}

\* "s.entries = append(s.entries, statElement{time: time.Now()})": the value
\* of the new entry is the zero big.Float
appendEntry(s, t) == [s EXCEPT !.entries = Append(@, [time |-> t, value |-> 0])]

\* "f(&s.entries[len(s.entries)-1].value)" with the f of Add or of AddInt64:
\* AddInt64 sets the entry ("new.SetInt64(value)"), Add sets the argument to
\* itself ("value.Set(value)") and leaves the entry as it is
setEntry(s, op, value) ==
    IF op = "AddInt64" /\ Len(s.entries) > 0
    THEN [s EXCEPT !.entries[Len(s.entries)].value = value]
    ELSE s

\* "if time.Since(s.lastPurge) > s.d { s.purge() }"
purgeIfDue(s, t) == IF t - s.lastPurge > s.d THEN purge(s, t) ELSE s

InitRing ==
    /\ now = 0
    /\ limiters = [i \in Queues |-> NewLimiter(MaxBurst)]
    /\ stats = [i \in Queues |-> NewStats(RingWindow, 0)]
    /\ nreq = 0
    /\ waiting = {}
    /\ resp = NoResponse
    /\ downstream = <<>>
    /\ issued = <<>>
    /\ selected = NoSelection
    /\ samples = [i \in Queues |-> <<>>]
    /\ calls = {}

LeaveRingAlone ==
    UNCHANGED <<limiters, waiting, resp, downstream, issued, selected>>

TickRing ==
    /\ now < RingTime
    /\ now' = now + 1
    /\ UNCHANGED <<stats, nreq, samples, calls>>
    /\ LeaveRingAlone

\* a goroutine calls Add(value), AddInt64(value) or Average()
RingCall(op, value) ==
    /\ calls' = calls \cup
          {[id |-> nreq + 1, op |-> op, value |-> value, pc |-> "Lock",
            at |-> 0, seen |-> 0, sum |-> 0, count |-> 0]}
    /\ nreq' = nreq + 1
    /\ UNCHANGED <<now, stats, samples>>
    /\ LeaveRingAlone

CallAdd == nreq < MaxCalls /\ \E value \in SampleValues : RingCall("Add", value)
CallAddInt64 ==
    nreq < MaxCalls /\ \E value \in SampleValues : RingCall("AddInt64", value)
CallAverage == nreq < MaxCalls /\ RingCall("Average", 0)

\* "s.m.Lock()"
RingLock ==
    /\ \E c \in calls :
          /\ c.pc = "Lock"
          /\ mutexFree(calls)
          /\ calls' = (calls \ {c}) \cup
                {[c EXCEPT !.pc = IF c.op = "Average" THEN "purge" ELSE "append"]}
    /\ UNCHANGED <<now, stats, nreq, samples>>
    /\ LeaveRingAlone

\* add: the new entry, stamped time.Now()
RingAppend ==
    /\ \E c \in calls :
          /\ c.pc = "append"
          /\ stats' = [stats EXCEPT ![0] = appendEntry(@, now)]
          /\ samples' = [samples EXCEPT ![0] =
                            Append(@, [time |-> now, value |-> c.value, op |-> c.op])]
          /\ calls' = (calls \ {c}) \cup {[c EXCEPT !.pc = "f", !.at = now]}
    /\ UNCHANGED <<now, nreq>>
    /\ LeaveRingAlone

\* add: f on the value of the last entry
RingSet ==
    /\ \E c \in calls :
          /\ c.pc = "f"
          /\ stats' = [stats EXCEPT ![0] = setEntry(@, c.op, c.value)]
          /\ calls' = (calls \ {c}) \cup {[c EXCEPT !.pc = "since"]}
    /\ UNCHANGED <<now, nreq, samples>>
    /\ LeaveRingAlone

\* add: the purge when one is due, and the deferred Unlock()
RingAddReturn ==
    /\ \E c \in calls :
          /\ c.pc = "since"
          /\ stats' = [stats EXCEPT ![0] = purgeIfDue(@, now)]
          /\ calls' = (calls \ {c}) \cup {[c EXCEPT !.pc = "done"]}
    /\ UNCHANGED <<now, nreq, samples>>
    /\ LeaveRingAlone

\* Average: "s.purge()"
RingPurge ==
    /\ \E c \in calls :
          /\ c.pc = "purge"
          /\ stats' = [stats EXCEPT ![0] = purge(@, now)]
          /\ calls' = (calls \ {c}) \cup
                {[c EXCEPT !.pc = "sum", !.at = now, !.seen = Len(samples[0])]}
    /\ UNCHANGED <<now, nreq, samples>>
    /\ LeaveRingAlone

\* Average: the sum over the entries, their number, and the deferred Unlock();
\* the result is the quotient sum / count, and zero when count is 0
RingAverageReturn ==
    /\ \E c \in calls :
          /\ c.pc = "sum"
          /\ calls' = (calls \ {c}) \cup
                {[c EXCEPT !.pc = "done",
                           !.sum = sumValues(stats[0].entries, 1),
                           !.count = Len(stats[0].entries)]}
    /\ UNCHANGED <<now, stats, nreq, samples>>
    /\ LeaveRingAlone

NextRing ==
    \/ TickRing
    \/ CallAdd
    \/ CallAddInt64
    \/ CallAverage
    \/ RingLock
    \/ RingAppend
    \/ RingSet
    \/ RingAddReturn
    \/ RingPurge
    \/ RingAverageReturn

SpecRing == InitRing /\ [][NextRing]_vars

(***************************************************************************)
(* Average is the mean of what was added: claim C26.                       *)
(***************************************************************************)
\* the calls of Average() that have returned
Averages == {c \in calls : c.op = "Average" /\ c.pc = "done"}

\* the samples added before Average call c took the ring, and those of them
\* within the window at that instant
AddedBefore(c) == SubSeq(samples[0], 1, c.seen)
SurvivingAt(c) == InWindow(AddedBefore(c), 1, c.at, RingWindow)

\* C26: when all the values added to a ring, through Add or through AddInt64,
\* lie within the window W at the time of the call, Average() returns the
\* arithmetic mean of exactly those values (their sum over their number),
\* and it returns 0 when the ring holds no surviving sample.
C26_AverageIsMean ==
    \A c \in Averages :
       /\ SurvivingAt(c) = AddedBefore(c) =>
             /\ c.count = Len(AddedBefore(c))
             /\ c.sum = sumValues(AddedBefore(c), 1)
       /\ SurvivingAt(c) = <<>> => c.count = 0 /\ c.sum = 0

\* the same, for the samples added through AddInt64 alone
AverageIsMeanOfInt64 ==
    \A c \in Averages :
       (\A k \in 1 .. c.seen : samples[0][k].op = "AddInt64") =>
          /\ c.count = Len(SurvivingAt(c))
          /\ c.sum = sumValues(SurvivingAt(c), 1)

\* Average() returned the mean of two different values added through AddInt64
AverageWitnessInt64 ==
    \E c \in Averages :
       /\ c.seen = 2 /\ c.count = 2 /\ c.sum = 4
       /\ \A k \in 1 .. 2 : samples[0][k].op = "AddInt64"

(***************************************************************************)
(* The ring under interleaved calls: claim C27.                            *)
(***************************************************************************)
\* the samples a purge has dropped: the ring is the rest of the log
Dropped == Len(samples[0]) - Len(stats[0].entries)

\* C27: for any interleaving of concurrent add and Average calls on one ring
\* the calls take effect one at a time (at most one call is between its
\* Lock and its return, so append, purge and mean computation never
\* overlap); no added sample is lost except by purge of samples older than
\* W (the ring holds the samples of the log in order, less a prefix of
\* samples older than W at the last purge, and once no call is under way
\* every value set through AddInt64 is in its entry); and the timestamps
\* of the ring are weakly increasing in every reachable state.
C27_RingAtomicity ==
    /\ Cardinality(holdsMutex(calls)) <= 1
    /\ Dropped >= 0
    /\ \A k \in 1 .. Len(stats[0].entries) :
          stats[0].entries[k].time = samples[0][Dropped + k].time
    /\ \A k \in 1 .. Dropped :
          stats[0].lastPurge - samples[0][k].time > RingWindow
    /\ holdsMutex(calls) = {} =>
          \A k \in 1 .. Len(stats[0].entries) :
             samples[0][Dropped + k].op = "AddInt64" =>
                stats[0].entries[k].value = samples[0][Dropped + k].value
    /\ \A j, k \in 1 .. Len(stats[0].entries) :
          j <= k => stats[0].entries[j].time <= stats[0].entries[k].time

\* a call of AddInt64 is between its append and its f while another call
\* waits in Lock(), on a ring that already holds an older sample
C27_Witness ==
    /\ \E c \in calls : c.pc = "f" /\ c.op = "AddInt64"
    /\ \E c \in calls : c.pc = "Lock"
    /\ Len(stats[0].entries) = 2
    /\ stats[0].entries[1].time < stats[0].entries[2].time

\* a purge dropped a sample older than the window and kept a younger one
C27_WitnessPurge ==
    /\ Dropped > 0
    /\ Len(stats[0].entries) > 0
    /\ holdsMutex(calls) = {}
====
